---- MODULE Spec2Model ----
(***************************************************************************)
(* A model of the document search of unifex (src/unifex/base/models.py):   *)
(* Document.search, _search_blocks, _merge_blocks_by_gap,                  *)
(* _create_merged_block and _blocks_overlap.                               *)
(*                                                                         *)
(* Texts are sequences of one-character strings.  Coordinates are          *)
(* integers.  An optional value (merge_gap, confidence, font_info) is a    *)
(* record [some, v].  Every TextBlock carries an "obj" field, the identity *)
(* of the Python object: the blocks stored in a Document have distinct     *)
(* positive identities, a TextBlock built by the search has identity 0.    *)
(*                                                                         *)
(* The other parts of the repository that the claims speak of are modelled *)
(* further down, each with a variable and a specification of its own; a    *)
(* specification holds the variables of the other parts at NotInUse.       *)
(***************************************************************************)
EXTENDS Integers, Sequences, FiniteSets, TLC

VARIABLES doc, pc, call, results, ext, ocr, llm, conv, tbl

vars == <<doc, pc, call, results, ext, ocr, llm, conv, tbl>>

(***************************************************************************)
(* Bounds of the model.                                                    *)
(***************************************************************************)
MaxBlocks == 3
MaxPages == 2

\* the value of a variable in the specifications that do not use it
NotInUse == [pc |-> "not in use"]

(***************************************************************************)
(* Optional values.                                                        *)
(***************************************************************************)
None == [some |-> FALSE, v |-> 0]
Some(x) == [some |-> TRUE, v |-> x]

Min(S) == CHOOSE x \in S : \A y \in S : x <= y
Max(S) == CHOOSE x \in S : \A y \in S : x >= y
Range(s) == {s[i] : i \in 1..Len(s)}

RECURSIVE Flatten(_)
Flatten(ss) == IF ss = <<>> THEN <<>> ELSE ss[1] \o Flatten(Tail(ss))

(***************************************************************************)
(* BBox, TextBlock, Page, SearchResult.                                    *)
(***************************************************************************)
BBox(x0, y0, x1, y1) == [x0 |-> x0, y0 |-> y0, x1 |-> x1, y1 |-> y1]

TextBlock(obj, text, bbox, rotation, confidence, font_info) ==
    [obj |-> obj, text |-> text, bbox |-> bbox, rotation |-> rotation,
     confidence |-> confidence, font_info |-> font_info]

Page(n, texts) == [page |-> n, texts |-> texts]

SearchResult(n, block, originals) ==
    [page |-> n, block |-> block, original_blocks |-> originals]

(***************************************************************************)
(* Pattern matching.  A pattern is a string, [kind |-> "str"], or a        *)
(* compiled regular expression, [kind |-> "re"], here one that matches a   *)
(* literal, with or without re.IGNORECASE.                                 *)
(***************************************************************************)
StrPattern(s) == [kind |-> "str", s |-> s, ignorecase |-> FALSE]
RePattern(s, ic) == [kind |-> "re", s |-> s, ignorecase |-> ic]

Lower(c) ==
    CASE c = "A" -> "a"
      [] c = "B" -> "b"
      [] OTHER -> c

Fold(s) == [i \in 1..Len(s) |-> Lower(s[i])]

Contains(text, lit) ==
    \E i \in 0..(Len(text) - Len(lit)) : SubSeq(text, i + 1, i + Len(lit)) = lit

\* a mutant of Compile: the flag inverted
CompileInverted(pattern, case_sensitive) ==
    IF pattern.kind = "re"
    THEN [lit |-> pattern.s, ignorecase |-> pattern.ignorecase]
    ELSE [lit |-> pattern.s, ignorecase |-> case_sensitive]

\* a mutant of Compile: case_sensitive=False adds re.IGNORECASE to a compiled
\* pattern too
CompileFlagAdded(pattern, case_sensitive) ==
    IF pattern.kind = "re"
    THEN [lit |-> pattern.s, ignorecase |-> pattern.ignorecase \/ ~case_sensitive]
    ELSE [lit |-> pattern.s, ignorecase |-> ~case_sensitive]

\* re.compile(re.escape(pattern), flags), or the compiled pattern itself
Compile(pattern, case_sensitive) ==
    IF pattern.kind = "re"
    THEN [lit |-> pattern.s, ignorecase |-> pattern.ignorecase]
    ELSE [lit |-> pattern.s, ignorecase |-> ~case_sensitive]

\* compiled.search(text) is not None
ReSearch(compiled, text) ==
    IF compiled.ignorecase
    THEN Contains(Fold(text), Fold(compiled.lit))
    ELSE Contains(text, compiled.lit)

\* a mutant of Page_search: the matching blocks, last stored first
PageSearchReversed(page, pattern, case_sensitive) ==
    LET found == SelectSeq(page.texts,
                           LAMBDA block : ReSearch(Compile(pattern, case_sensitive), block.text))
    IN  [i \in 1..Len(found) |-> found[Len(found) + 1 - i]]

\* Page.search: the blocks of the page that the pattern matches, in storage
\* order (the method compiles the pattern as _search_blocks does)
Page_search(page, pattern, case_sensitive) ==
    SelectSeq(page.texts,
              LAMBDA block : ReSearch(Compile(pattern, case_sensitive), block.text))

(***************************************************************************)
(* sorted(blocks, key=lambda b: b.bbox.x0): a stable sort.                 *)
(***************************************************************************)
RECURSIVE InsertByX0(_, _)
InsertByX0(sorted, b) ==
    IF sorted = <<>> THEN <<b>>
    ELSE IF sorted[Len(sorted)].bbox.x0 <= b.bbox.x0
         THEN Append(sorted, b)
         ELSE Append(InsertByX0(SubSeq(sorted, 1, Len(sorted) - 1), b),
                     sorted[Len(sorted)])

RECURSIVE SortedByX0(_)
SortedByX0(blocks) ==
    IF blocks = <<>> THEN <<>>
    ELSE InsertByX0(SortedByX0(SubSeq(blocks, 1, Len(blocks) - 1)),
                    blocks[Len(blocks)])

(***************************************************************************)
(* _create_merged_block                                                    *)
(***************************************************************************)
\* a mutant of JoinTexts: "".join(...)
RECURSIVE JoinTextsNoSpace(_)
JoinTextsNoSpace(blocks) ==
    IF Len(blocks) = 1 THEN blocks[1].text
    ELSE blocks[1].text \o JoinTextsNoSpace(Tail(blocks))

RECURSIVE JoinTexts(_)
JoinTexts(blocks) ==
    IF Len(blocks) = 1 THEN blocks[1].text
    ELSE blocks[1].text \o <<" ">> \o JoinTexts(Tail(blocks))

\* a mutant of _create_merged_block: no shortcut for a single block
CreateMergedBlockAlways(blocks) ==
    TextBlock(0,
              JoinTexts(blocks),
              BBox(Min({b.bbox.x0 : b \in Range(blocks)}),
                   Min({b.bbox.y0 : b \in Range(blocks)}),
                   Max({b.bbox.x1 : b \in Range(blocks)}),
                   Max({b.bbox.y1 : b \in Range(blocks)})),
              blocks[1].rotation,
              None,
              None)

\* a mutant of _create_merged_block: the rotation of the last block
CreateMergedBlockLastRotation(blocks) ==
    IF Len(blocks) = 1 THEN blocks[1]
    ELSE TextBlock(0,
                   JoinTexts(blocks),
                   BBox(Min({b.bbox.x0 : b \in Range(blocks)}),
                        Min({b.bbox.y0 : b \in Range(blocks)}),
                        Max({b.bbox.x1 : b \in Range(blocks)}),
                        Max({b.bbox.y1 : b \in Range(blocks)})),
                   blocks[Len(blocks)].rotation,
                   None,
                   None)

_create_merged_block(blocks) ==
    IF Len(blocks) = 1 THEN blocks[1]
    ELSE TextBlock(0,
                   JoinTexts(blocks),
                   BBox(Min({b.bbox.x0 : b \in Range(blocks)}),
                        Min({b.bbox.y0 : b \in Range(blocks)}),
                        Max({b.bbox.x1 : b \in Range(blocks)}),
                        Max({b.bbox.y1 : b \in Range(blocks)})),
                   blocks[1].rotation,
                   None,
                   None)

(***************************************************************************)
(* _merge_blocks_by_gap.  GapRuns is the loop: it returns the runs         *)
(* (current_group at each finalization), _merge_blocks_by_gap the merged   *)
(* blocks made of them.                                                    *)
(***************************************************************************)
\* a mutant of MergesWithPrev: < gap
MergesWithPrevStrict(block, prev, gap) == block.bbox.x0 - prev.bbox.x1 < gap

\* a mutant of MergesWithPrev: the gap measured from the x0 of the previous
\* block
MergesWithPrevFromX0(block, prev, gap) == block.bbox.x0 - prev.bbox.x0 <= gap

MergesWithPrev(block, prev, gap) == block.bbox.x0 - prev.bbox.x1 <= gap

RECURSIVE GapLoop(_, _, _, _)
GapLoop(rest, current_group, runs, gap) ==
    IF rest = <<>> THEN Append(runs, current_group)
    ELSE IF MergesWithPrev(rest[1], current_group[Len(current_group)], gap)
         THEN GapLoop(Tail(rest), Append(current_group, rest[1]), runs, gap)
         ELSE GapLoop(Tail(rest), <<rest[1]>>, Append(runs, current_group), gap)

\* a mutant of GapRuns: the last group is not finalized
GapRunsLastLost(blocks, gap) ==
    IF blocks = <<>> THEN <<>>
    ELSE LET sorted_blocks == SortedByX0(blocks)
             runs == GapLoop(Tail(sorted_blocks), <<sorted_blocks[1]>>, <<>>, gap)
         IN  SubSeq(runs, 1, Len(runs) - 1)

GapRuns(blocks, gap) ==
    IF blocks = <<>> THEN <<>>
    ELSE LET sorted_blocks == SortedByX0(blocks)
         IN  GapLoop(Tail(sorted_blocks), <<sorted_blocks[1]>>, <<>>, gap)

_merge_blocks_by_gap(blocks, gap) ==
    LET runs == GapRuns(blocks, gap)
    IN  [i \in 1..Len(runs) |-> _create_merged_block(runs[i])]

(***************************************************************************)
(* _blocks_overlap                                                         *)
(***************************************************************************)
_blocks_overlap(a, b) == ~(a.bbox.x1 < b.bbox.x0 \/ a.bbox.x0 > b.bbox.x1)

(***************************************************************************)
(* _search_blocks                                                          *)
(***************************************************************************)
\* int(a / b) for b > 0: Python's int() truncates toward zero
TruncDiv(a, b) == IF a >= 0 THEN a \div b ELSE -((-a) \div b)

\* a mutant of LineKey: with line_gap = 0 every y0 is a line of its own
LineKeyNoCollapse(block, line_gap) ==
    IF line_gap > 0 THEN TruncDiv(block.bbox.y0, line_gap) ELSE block.bbox.y0

LineKey(block, line_gap) ==
    IF line_gap > 0 THEN TruncDiv(block.bbox.y0, line_gap) ELSE 0

\* the keys of line_groups in insertion order
RECURSIVE LineKeys(_, _)
LineKeys(blocks, line_gap) ==
    IF blocks = <<>> THEN <<>>
    ELSE LET before == LineKeys(SubSeq(blocks, 1, Len(blocks) - 1), line_gap)
             k == LineKey(blocks[Len(blocks)], line_gap)
         IN  IF k \in Range(before) THEN before ELSE Append(before, k)

\* line_groups[k]
LineBlocks(blocks, line_gap, k) ==
    SelectSeq(blocks, LAMBDA b : LineKey(b, line_gap) = k)

\* the (merged_block, originals) pairs of one line
LineMatches(line_blocks, compiled, merge_gap) ==
    LET sorted_line == SortedByX0(line_blocks)
        merged == _merge_blocks_by_gap(sorted_line, merge_gap)
        hits == SelectSeq(merged, LAMBDA m : ReSearch(compiled, m.text))
    IN  [i \in 1..Len(hits) |->
            [block |-> hits[i],
             originals |-> SelectSeq(sorted_line,
                                     LAMBDA b : _blocks_overlap(b, hits[i]))]]

RECURSIVE ConcatLines(_, _, _, _, _)
ConcatLines(keys, blocks, compiled, merge_gap, line_gap) ==
    IF keys = <<>> THEN <<>>
    ELSE LineMatches(LineBlocks(blocks, line_gap, keys[1]), compiled, merge_gap)
         \o ConcatLines(Tail(keys), blocks, compiled, merge_gap, line_gap)

_search_blocks(blocks, pattern, case_sensitive, merge_gap, line_gap) ==
    LET compiled == Compile(pattern, case_sensitive)
    IN  IF merge_gap.some
        THEN ConcatLines(LineKeys(blocks, line_gap), blocks, compiled,
                         merge_gap.v, line_gap)
        ELSE LET hits == SelectSeq(blocks, LAMBDA b : ReSearch(compiled, b.text))
             IN  [i \in 1..Len(hits) |-> [block |-> hits[i], originals |-> <<hits[i]>>]]

(***************************************************************************)
(* _DocumentSearchMixin.search                                             *)
(***************************************************************************)
PagesNone == [kind |-> "none", n |-> 0, l |-> <<>>]
PagesInt(n) == [kind |-> "int", n |-> n, l |-> <<>>]
PagesList(l) == [kind |-> "list", n |-> 0, l |-> l]

\* target_pages, for pages other than None
TargetPages(pages) == IF pages.kind = "int" THEN {pages.n} ELSE Range(pages.l)

\* a mutant of PageSelected: "if not pages" in place of "if pages is None"
PageSelectedFalsy(page, pages) ==
    \/ pages.kind = "none"
    \/ pages.kind = "int" /\ pages.n = 0
    \/ pages.kind = "list" /\ pages.l = <<>>
    \/ page.page \in TargetPages(pages)

\* a mutant of PageSelected: an empty list of pages selects every page
PageSelectedEmptyIsAll(page, pages) ==
    \/ pages.kind = "none"
    \/ pages.kind = "list" /\ pages.l = <<>>
    \/ page.page \in TargetPages(pages)

PageSelected(page, pages) ==
    pages.kind = "none" \/ page.page \in TargetPages(pages)

PageResults(page, pattern, case_sensitive, merge_gap, line_gap) ==
    LET matches == _search_blocks(page.texts, pattern, case_sensitive, merge_gap, line_gap)
    IN  [i \in 1..Len(matches) |->
            SearchResult(page.page, matches[i].block, matches[i].originals)]

\* a mutant of SearchPages: the test of target_pages left out
RECURSIVE SearchPagesNoFilter(_, _, _, _, _, _)
SearchPagesNoFilter(ps, pattern, case_sensitive, pages, merge_gap, line_gap) ==
    IF ps = <<>> THEN <<>>
    ELSE PageResults(ps[1], pattern, case_sensitive, merge_gap, line_gap)
         \o SearchPagesNoFilter(Tail(ps), pattern, case_sensitive, pages,
                                merge_gap, line_gap)

\* a mutant of SearchPages: the pages walked in the order the argument lists them
RECURSIVE SearchPagesAsListed(_, _, _, _, _, _)
SearchPagesAsListed(ps, pattern, case_sensitive, pages, merge_gap, line_gap) ==
    IF pages.kind # "list"
    THEN Flatten([p \in 1..Len(ps) |->
            IF PageSelected(ps[p], pages)
            THEN PageResults(ps[p], pattern, case_sensitive, merge_gap, line_gap)
            ELSE <<>>])
    ELSE IF pages.l = <<>> THEN <<>>
    ELSE SearchPagesAsListed(ps, pattern, case_sensitive, PagesInt(pages.l[1]),
                             merge_gap, line_gap)
         \o SearchPagesAsListed(ps, pattern, case_sensitive, PagesList(Tail(pages.l)),
                                merge_gap, line_gap)

RECURSIVE SearchPages(_, _, _, _, _, _)
SearchPages(ps, pattern, case_sensitive, pages, merge_gap, line_gap) ==
    IF ps = <<>> THEN <<>>
    ELSE (IF PageSelected(ps[1], pages)
          THEN PageResults(ps[1], pattern, case_sensitive, merge_gap, line_gap)
          ELSE <<>>)
         \o SearchPages(Tail(ps), pattern, case_sensitive, pages, merge_gap, line_gap)

DocumentSearch(d, c) ==
    SearchPages(d, c.pattern, c.case_sensitive, c.pages, c.merge_gap, c.line_gap)

\* a mutant of TextsAfterSearch: blocks.sort(key=...) in place of sorted(blocks)
TextsSortedInPlace(texts, merge_gap) ==
    IF merge_gap.some THEN SortedByX0(texts) ELSE texts

\* page.texts after _search_blocks(page.texts, ...): sorted() and the lists
\* of line_groups are new lists, _create_merged_block builds a new TextBlock,
\* and no attribute of a block is assigned
TextsAfterSearch(texts, merge_gap) == texts

\* self.pages after search: only the selected pages are handed to
\* _search_blocks
DocAfterSearch(d, c) ==
    [p \in 1..Len(d) |->
        IF PageSelected(d[p], c.pages)
        THEN [d[p] EXCEPT !.texts = TextsAfterSearch(@, c.merge_gap)]
        ELSE d[p]]

(***************************************************************************)
(* The Documents and the calls of the model.                               *)
(***************************************************************************)
TextA == <<"a">>
TextB == <<"B">>
Texts == {TextA, TextB}

\* (x0, x1) of a block: gaps of -2, -1, 0 and 1 between two of them
XIntervals == {<<0, 2>>, <<1, 1>>, <<2, 2>>}

\* a stored block, its identity not yet given
Block(text, x, y0) ==
    TextBlock(0, text, BBox(x[1], y0, x[2], y0 + 1),
              IF x = <<1, 1>> THEN 90 ELSE 0,
              IF text = TextA THEN Some(9) ELSE None,
              IF y0 = 0 THEN Some(1) ELSE None)

\* every text at every x-interval on the first line, one block on a second line
BlockUniverse ==
    {Block(t, x, 0) : t \in Texts, x \in XIntervals} \cup {Block(TextA, <<1, 1>>, 2)}

SeqsUpTo(S, n) == UNION {[1..k -> S] : k \in 0..n}

\* the blocks of page p of a Document are distinct objects
Stored(p, texts) == [i \in 1..Len(texts) |-> [texts[i] EXCEPT !.obj = 10 * p + i]]

\* the lists of at most n pairwise different elements of S
DistinctSeqsUpTo(S, n) ==
    {t \in SeqsUpTo(S, n) : \A i, j \in 1..Len(t) : i # j => t[i] # t[j]}

SinglePageDocs ==
    {<<Page(0, texts)>> : texts \in DistinctSeqsUpTo(BlockUniverse, MaxBlocks)}

PageContents ==
    {<<>>,
     <<Block(TextA, <<2, 2>>, 0), Block(TextB, <<0, 2>>, 0), Block(TextA, <<1, 1>>, 0)>>}

MultiPageDocs ==
    UNION {[1..k -> {Page(n, t) : n \in 0..(MaxPages - 1), t \in PageContents}]
           : k \in 0..MaxPages}

WithStored(d) == [p \in 1..Len(d) |-> Page(d[p].page, Stored(p, d[p].texts))]

Docs == {WithStored(d) : d \in SinglePageDocs \cup MultiPageDocs}

Patterns ==
    {StrPattern(<<"a">>), StrPattern(<<"b">>),
     StrPattern(<<"a", " ", "B">>), StrPattern(<<"a", " ", "b">>),
     RePattern(<<"b">>, TRUE), RePattern(<<"b">>, FALSE)}

MergeGaps == {None, Some(-1), Some(0), Some(1)}
LineGaps == {0, 2}

PagesArgs ==
    {PagesNone} \cup {PagesInt(n) : n \in 0..MaxPages}
    \cup {PagesList(l) : l \in SeqsUpTo(0..(MaxPages - 1), 2)}

Call(pattern, case_sensitive, pages, merge_gap, line_gap) ==
    [pattern |-> pattern, case_sensitive |-> case_sensitive, pages |-> pages,
     merge_gap |-> merge_gap, line_gap |-> line_gap]

\* every merge setting on all pages, and every page selection
Calls ==
    {Call(p, cs, PagesNone, mg, lg) :
        p \in Patterns, cs \in BOOLEAN, mg \in MergeGaps \ {None}, lg \in LineGaps}
    \cup
    {Call(p, cs, PagesNone, None, 2) : p \in Patterns, cs \in BOOLEAN}
    \cup
    {Call(StrPattern(<<"a">>), TRUE, pg, mg, 2) :
        pg \in PagesArgs, mg \in {None, Some(1)}}
    \cup
    {Call(StrPattern(<<"b">>), FALSE, pg, None, 2) : pg \in PagesArgs}

NoCall == Call(StrPattern(<<>>), TRUE, PagesNone, None, 0)

(***************************************************************************)
(* The state machine: a Document, and the calls of Document.search on it.  *)
(***************************************************************************)
\* the variables of the other parts
others == <<ext, ocr, llm, conv, tbl>>

Init ==
    /\ doc \in Docs
    /\ pc = "idle"
    /\ call = NoCall
    /\ results = <<>>
    /\ ext = NotInUse /\ ocr = NotInUse /\ llm = NotInUse
    /\ conv = NotInUse /\ tbl = NotInUse

\* results = doc.search(pattern, case_sensitive=..., pages=..., merge_gap=..., line_gap=...)
Search ==
    /\ pc = "idle"
    /\ \E c \in Calls :
        /\ call' = c
        /\ results' = DocumentSearch(doc, c)
        /\ doc' = DocAfterSearch(doc, c)
    /\ pc' = "returned"
    /\ UNCHANGED others

\* the caller drops the result list
Return ==
    /\ pc = "returned"
    /\ pc' = "idle"
    /\ call' = NoCall
    /\ results' = <<>>
    /\ UNCHANGED <<doc, others>>

Next == Search \/ Return

Spec == Init /\ [][Next]_vars

(***************************************************************************)
(* What the claims speak of: the selected pages, the lines of a page and   *)
(* the runs of a line, each run a list of stored blocks.                   *)
(***************************************************************************)
Returned == pc = "returned"
Merging == Returned /\ call.merge_gap.some
NotMerging == Returned /\ ~call.merge_gap.some

SelectedPages == SelectSeq(doc, LAMBDA p : PageSelected(p, call.pages))

\* the blocks of the selected pages
SelectedBlocks ==
    Flatten([p \in 1..Len(SelectedPages) |-> SelectedPages[p].texts])

\* the runs of a page, line after line as the search walks them
RunsOfPage(page) ==
    LET keys == LineKeys(page.texts, call.line_gap)
    IN  Flatten([k \in 1..Len(keys) |->
                    GapRuns(LineBlocks(page.texts, call.line_gap, keys[k]),
                            call.merge_gap.v)])

\* the runs whose merged text matches: one result is made of each
MatchedRuns ==
    LET compiled == Compile(call.pattern, call.case_sensitive)
    IN  Flatten([p \in 1..Len(SelectedPages) |->
                    SelectSeq(RunsOfPage(SelectedPages[p]),
                              LAMBDA R : ReSearch(compiled, JoinTexts(R)))])

\* C1: with merge_gap provided, the original_blocks of every result are
\* exactly the stored blocks of the run merged into its block, in
\* left-to-right order: no block of the run is missing and no block of
\* another run is among them.
C1_OriginalsAreTheRun ==
    Merging =>
        LET runs == MatchedRuns
        IN  /\ Len(results) = Len(runs)
            /\ \A i \in 1..Len(results) : results[i].original_blocks = runs[i]

\* C4: when no merge occurred for a result (merge_gap absent, or the
\* matched block is a run of length 1), original_blocks holds exactly one
\* block, and it is the result's block itself.
C4_SingleOriginal ==
    /\ NotMerging =>
          \A i \in 1..Len(results) :
              results[i].original_blocks = <<results[i].block>>
    /\ Merging =>
          LET runs == MatchedRuns
          IN  \A i \in 1..Len(results) :
                  (i <= Len(runs) /\ Len(runs[i]) = 1)
                      => results[i].original_blocks = <<results[i].block>>

(***************************************************************************)
(* The runs of a line, stated from the gaps: s is the line in ascending    *)
(* x0 order, a run is a maximal stretch s[i..j] whose consecutive gaps are *)
(* all <= merge_gap.                                                       *)
(***************************************************************************)
GapAfter(s, k) == s[k + 1].bbox.x0 - s[k].bbox.x1

IsRun(s, i, j, g) ==
    /\ i <= j
    /\ \A k \in i..(j - 1) : GapAfter(s, k) <= g
    /\ i = 1 \/ GapAfter(s, i - 1) > g
    /\ j = Len(s) \/ GapAfter(s, j) > g

\* the lines of a page, each in ascending x0 order
LinesOf(page) ==
    {SortedByX0(SelectSeq(page.texts, LAMBDA b : LineKey(b, call.line_gap) = k)) :
        k \in {LineKey(b, call.line_gap) : b \in Range(page.texts)}}

\* (page number, run) for every run of every line of every selected page
PageRuns(p) ==
    UNION {{<<p, s, i, j>> : i \in 1..Len(s), j \in 1..Len(s)} :
              s \in LinesOf(SelectedPages[p])}

DocRuns ==
    {r \in UNION {PageRuns(p) : p \in 1..Len(SelectedPages)} :
        IsRun(r[2], r[3], r[4], call.merge_gap.v)}

RunBlocks(r) == SubSeq(r[2], r[3], r[4])
RunPage(r) == SelectedPages[r[1]].page

RECURSIVE SpaceJoined(_)
SpaceJoined(R) ==
    IF Len(R) = 1 THEN R[1].text
    ELSE SpaceJoined(SubSeq(R, 1, Len(R) - 1)) \o <<" ">> \o R[Len(R)].text

IsUnionBBox(bb, R) ==
    /\ \A k \in 1..Len(R) :
          /\ bb.x0 <= R[k].bbox.x0 /\ bb.y0 <= R[k].bbox.y0
          /\ bb.x1 >= R[k].bbox.x1 /\ bb.y1 >= R[k].bbox.y1
    /\ \E k \in 1..Len(R) : bb.x0 = R[k].bbox.x0
    /\ \E k \in 1..Len(R) : bb.y0 = R[k].bbox.y0
    /\ \E k \in 1..Len(R) : bb.x1 = R[k].bbox.x1
    /\ \E k \in 1..Len(R) : bb.y1 = R[k].bbox.y1

\* the pattern of the call matches the text
Matches(text) == ReSearch(Compile(call.pattern, call.case_sensitive), text)

\* a run of several fragments that the pattern matches only when joined
PhraseRun(r) ==
    /\ r[4] > r[3]
    /\ Matches(SpaceJoined(RunBlocks(r)))
    /\ \A k \in r[3]..r[4] : ~Matches(r[2][k].text)

\* the union of the bboxes of the run
UnionBBox(R) ==
    CHOOSE bb \in {BBox(x0, y0, x1, y1) :
                      x0 \in {b.bbox.x0 : b \in Range(R)},
                      y0 \in {b.bbox.y0 : b \in Range(R)},
                      x1 \in {b.bbox.x1 : b \in Range(R)},
                      y1 \in {b.bbox.y1 : b \in Range(R)}} : IsUnionBBox(bb, R)

\* the runs that give the same page number, text and bbox as run r
SameMerge(r) ==
    {q \in DocRuns :
        /\ RunPage(q) = RunPage(r)
        /\ SpaceJoined(RunBlocks(q)) = SpaceJoined(RunBlocks(r))
        /\ UnionBBox(RunBlocks(q)) = UnionBBox(RunBlocks(r))}

\* the results with the page number, the joined text and the bbox of run r
ResultsOfRun(r) ==
    {n \in 1..Len(results) :
        /\ results[n].page = RunPage(r)
        /\ results[n].block.text = SpaceJoined(RunBlocks(r))
        /\ results[n].block.bbox = UnionBBox(RunBlocks(r))}

\* C2: with merge_gap provided the pattern is matched against the text of
\* each merged run: a run of same-line blocks whose consecutive gaps are
\* all <= merge_gap, and whose space-joined text the pattern matches while
\* it matches none of the fragments, yields exactly one result, with the
\* joined text as its block text; the same search with merge_gap absent
\* yields no result made of a block of that run.
C2_PhraseFoundOnceWhenMerged ==
    Merging =>
        \A r \in DocRuns :
            PhraseRun(r) =>
                /\ Cardinality(ResultsOfRun(r)) = Cardinality(SameMerge(r))
                /\ LET unmerged == DocumentSearch(doc, [call EXCEPT !.merge_gap = None])
                   IN  \A n \in 1..Len(unmerged) :
                           \A k \in r[3]..r[4] : unmerged[n].block.obj # r[2][k].obj

\* a phrase run that is the only run of its page with that text and bbox:
\* exactly one result
C2_Witness ==
    /\ Merging
    /\ \E r \in DocRuns :
          /\ PhraseRun(r)
          /\ SameMerge(r) = {r}
          /\ Cardinality(ResultsOfRun(r)) = 1
          /\ \A n \in ResultsOfRun(r) : results[n].block.text = <<"a", " ", "B">>

RECURSIVE PrefixLen(_, _)
PrefixLen(runs, n) == IF n = 0 THEN 0 ELSE PrefixLen(runs, n - 1) + Len(runs[n])

\* the run that holds the k-th block of the line
RunIndex(runs, k) ==
    CHOOSE n \in 1..Len(runs) : PrefixLen(runs, n - 1) < k /\ k <= PrefixLen(runs, n)

\* C3: in the merge of one line, a block joins the run of the block just
\* before it in ascending x0 order if and only if
\* current.x0 - previous.x1 <= merge_gap.
C3_JoinsIffGapWithinThreshold ==
    Merging =>
        \A p \in 1..Len(SelectedPages) :
            \A s \in LinesOf(SelectedPages[p]) :
                LET runs == GapRuns(s, call.merge_gap.v)
                IN  /\ Flatten(runs) = s
                    /\ \A k \in 1..(Len(s) - 1) :
                           (RunIndex(runs, k) = RunIndex(runs, k + 1))
                               <=> (GapAfter(s, k) <= call.merge_gap.v)

\* one line with a gap equal to merge_gap (merged) and a larger one (not merged)
C3_Witness ==
    /\ Merging
    /\ call.merge_gap.v >= 0
    /\ \E p \in 1..Len(SelectedPages) :
          \E s \in LinesOf(SelectedPages[p]) :
              /\ Len(s) = 3
              /\ GapAfter(s, 1) = call.merge_gap.v
              /\ GapAfter(s, 2) > call.merge_gap.v
              /\ Len(GapRuns(s, call.merge_gap.v)) = 2

DistinctPageNumbers ==
    \A p, q \in 1..Len(doc) : p # q => doc[p].page # doc[q].page

\* C5: with merge_gap provided, the results of one page come line after
\* line in ascending line-bucket key, and within a line in ascending x0,
\* whatever the storage order of page.texts.
C5_LineThenLeftToRight ==
    (Merging /\ DistinctPageNumbers) =>
        \A i, j \in 1..Len(results) :
            (i < j /\ results[i].page = results[j].page) =>
                LET ki == LineKey(results[i].block, call.line_gap)
                    kj == LineKey(results[j].block, call.line_gap)
                IN  \/ ki < kj
                    \/ ki = kj /\ results[i].block.bbox.x0 <= results[j].block.bbox.x0

\* where a stored block is: (index of its page in doc.pages, index in page.texts)
Position(b) ==
    CHOOSE pos \in UNION {{<<p, i>> : i \in 1..Len(doc[p].texts)} : p \in 1..Len(doc)} :
        doc[pos[1]].texts[pos[2]].obj = b.obj

Before(a, b) == a[1] < b[1] \/ (a[1] = b[1] /\ a[2] < b[2])

Reversed(l) == [i \in 1..Len(l) |-> l[Len(l) + 1 - i]]

\* C6: with merge_gap absent the results follow the page sequence of the
\* Document and, within a page, the storage order of page.texts (so the
\* results of one page are contiguous), each with the number of its page;
\* listing the page indices in another order gives the same result list.
C6_StorageOrder ==
    NotMerging =>
        /\ \A i \in 1..Len(results) :
              /\ results[i].block.obj # 0
              /\ results[i].page = doc[Position(results[i].block)[1]].page
        /\ \A i, j \in 1..Len(results) :
              i < j => Before(Position(results[i].block), Position(results[j].block))
        /\ call.pages.kind = "list" =>
              results = DocumentSearch(doc, [call EXCEPT !.pages.l = Reversed(@)])

\* pages listed in descending order, results of two pages, two of them of one page
C6_Witness ==
    /\ NotMerging
    /\ call.pages = PagesList(<<1, 0>>)
    /\ Len(doc) = 2 /\ doc[1].page = 0 /\ doc[2].page = 1
    /\ Len(results) = 4
    /\ results[1].page = 0 /\ results[2].page = 0 /\ results[3].page = 1
    /\ results[1].block.bbox.x0 > results[2].block.bbox.x0

\* C7: a run of length 1 passes through the merge unchanged, for every
\* merge_gap: the block returned is the stored block itself (same object,
\* text, bbox, rotation, confidence and font info), not a synthesized copy.
C7_SingleRunUnchanged ==
    Merging =>
        /\ \A k \in 1..Len(SelectedBlocks) :
              _merge_blocks_by_gap(<<SelectedBlocks[k]>>, call.merge_gap.v)
                  = <<SelectedBlocks[k]>>
        /\ LET runs == MatchedRuns
           IN  /\ Len(results) = Len(runs)
               /\ \A i \in 1..Len(results) :
                      Len(runs[i]) = 1 => results[i].block = runs[i][1]

\* a result that is a run of length 1 with a confidence and font info
C7_Witness ==
    /\ Merging
    /\ \E i \in 1..Len(results) :
          /\ Len(MatchedRuns[i]) = 1
          /\ results[i].block.obj # 0
          /\ results[i].block.confidence.some
          /\ results[i].block.font_info.some
          /\ results[i].block.rotation = 90

\* C8: for every run of length > 1 the synthesized block has the texts of
\* the run joined with exactly one space in ascending x0 order, the bbox
\* (min x0, min y0, max x1, max y1) of the run, the rotation of the first
\* (leftmost) block of the run, and no confidence.
C8_SynthesizedBlock ==
    Merging =>
        LET runs == MatchedRuns
        IN  /\ Len(results) = Len(runs)
            /\ \A i \in 1..Len(results) :
                  LET R == runs[i]
                      b == results[i].block
                  IN  Len(R) > 1 =>
                          /\ \A k \in 1..(Len(R) - 1) : R[k].bbox.x0 <= R[k + 1].bbox.x0
                          /\ b.text = SpaceJoined(R)
                          /\ IsUnionBBox(b.bbox, R)
                          /\ b.rotation = R[1].rotation
                          /\ ~b.confidence.some

\* a merged run whose blocks differ in rotation, y0 and confidence
C8_Witness ==
    /\ Merging
    /\ \E i \in 1..Len(results) :
          LET R == MatchedRuns[i]
          IN  /\ Len(R) = 3
              /\ R[1].rotation # R[3].rotation
              /\ R[1].confidence.some
              /\ R[1].bbox.y0 # R[2].bbox.y0
              /\ R[2].bbox.x1 < R[1].bbox.x1
              /\ results[i].block.rotation = 0

\* the page numbers the pages argument lists
Listed == IF call.pages.kind = "int" THEN {call.pages.n}
          ELSE {call.pages.l[k] : k \in 1..Len(call.pages.l)}

\* C9: search with pages = S (a scalar i meaning {i}) returns exactly the
\* results of the same search with pages absent whose page number is in S,
\* in the same relative order; an index that no page carries contributes
\* no result.
C9_PagesFilter ==
    (Returned /\ call.pages.kind # "none") =>
        results = SelectSeq(DocumentSearch(doc, [call EXCEPT !.pages = PagesNone]),
                            LAMBDA r : r.page \in Listed)

\* a scalar selection, of the page stored second, that keeps some results
\* and drops others
C9_Witness ==
    /\ Returned /\ call.pages = PagesInt(0)
    /\ Len(doc) = 2 /\ doc[1].page = 1 /\ doc[2].page = 0
    /\ Len(results) > 0
    /\ Len(results) < Len(DocumentSearch(doc, [call EXCEPT !.pages = PagesNone]))

SameLetter(c, d) ==
    c = d \/ {c, d} = {"a", "A"} \/ {c, d} = {"b", "B"}

ContainsExactly(text, pat) ==
    \E off \in 0..(Len(text) - Len(pat)) :
        \A k \in 1..Len(pat) : text[off + k] = pat[k]

ContainsIgnoringCase(text, pat) ==
    \E off \in 0..(Len(text) - Len(pat)) :
        \A k \in 1..Len(pat) : SameLetter(text[off + k], pat[k])

RECURSIVE IsSubList(_, _)
IsSubList(a, b) ==
    IF a = <<>> THEN TRUE
    ELSE IF b = <<>> THEN FALSE
    ELSE IF a[1] = b[1] THEN IsSubList(Tail(a), Tail(b))
    ELSE IsSubList(a, Tail(b))

ResultBlocks(rs) == [i \in 1..Len(rs) |-> rs[i].block]

\* C10: for a string pattern, case_sensitive=False returns every block
\* whose text contains the pattern when letter case is ignored,
\* case_sensitive=True only the blocks whose text contains it with the
\* same case, and the second list is a sub-list of the first.
C10_CaseSensitivity ==
    (Returned /\ call.pattern.kind = "str") =>
        LET sensitive == DocumentSearch(doc, [call EXCEPT !.case_sensitive = TRUE])
            insensitive == DocumentSearch(doc, [call EXCEPT !.case_sensitive = FALSE])
        IN  /\ IsSubList(sensitive, insensitive)
            /\ results = IF call.case_sensitive THEN sensitive ELSE insensitive
            /\ NotMerging =>
                  ResultBlocks(results) =
                      SelectSeq(SelectedBlocks,
                                LAMBDA b : IF call.case_sensitive
                                           THEN ContainsExactly(b.text, call.pattern.s)
                                           ELSE ContainsIgnoringCase(b.text, call.pattern.s))

\* a case-insensitive search that returns a block the case-sensitive one does not
C10_Witness ==
    /\ NotMerging /\ call.pattern.kind = "str" /\ ~call.case_sensitive
    /\ \E i \in 1..Len(results) :
          /\ results[i].block.text = <<"B">>
          /\ call.pattern.s = <<"b">>
    /\ DocumentSearch(doc, [call EXCEPT !.case_sensitive = TRUE]) = <<>>

\* the blocks whose text holds the literal of a compiled pattern, by the
\* flags of the pattern alone
MatchedByOwnFlags(b) ==
    IF call.pattern.ignorecase
    THEN ContainsIgnoringCase(b.text, call.pattern.s)
    ELSE ContainsExactly(b.text, call.pattern.s)

\* C11: for a pre-compiled regular expression, Page.search and
\* Document.search return the same result for case_sensitive=True and
\* case_sensitive=False, all other arguments equal: the flags of the
\* compiled expression alone decide whether case is ignored.
C11_CompiledPatternIgnoresFlag ==
    (Returned /\ call.pattern.kind = "re") =>
        /\ results = DocumentSearch(doc, [call EXCEPT !.case_sensitive = ~@])
        /\ NotMerging =>
              ResultBlocks(results) = SelectSeq(SelectedBlocks, MatchedByOwnFlags)
        /\ \A p \in 1..Len(doc) :
              /\ Page_search(doc[p], call.pattern, TRUE)
                    = Page_search(doc[p], call.pattern, FALSE)
              /\ Page_search(doc[p], call.pattern, call.case_sensitive)
                    = SelectSeq(doc[p].texts, MatchedByOwnFlags)

\* a case-insensitive compiled pattern searched with case_sensitive=True
\* finds a block that differs from it in case
C11_Witness ==
    /\ NotMerging
    /\ call.pattern = RePattern(<<"b">>, TRUE)
    /\ call.case_sensitive
    /\ \E i \in 1..Len(results) : results[i].block.text = <<"B">>
    /\ \E p \in 1..Len(doc) :
          \E b \in Range(Page_search(doc[p], call.pattern, TRUE)) : b.text = <<"B">>

EdgeDocs == {WithStored(d) : d \in MultiPageDocs}

AllCalls ==
    {Call(p, cs, pg, mg, lg) :
        p \in {StrPattern(<<"a">>), StrPattern(<<"b">>),
               StrPattern(<<"a", " ", "B">>), RePattern(<<"b">>, FALSE)},
        cs \in BOOLEAN,
        pg \in PagesArgs, mg \in MergeGaps, lg \in LineGaps}

InitEdge ==
    /\ doc \in EdgeDocs
    /\ pc = "idle"
    /\ call = NoCall
    /\ results = <<>>
    /\ ext = NotInUse /\ ocr = NotInUse /\ llm = NotInUse
    /\ conv = NotInUse /\ tbl = NotInUse

\* results = doc.search(...), with any arguments
SearchAny ==
    /\ pc = "idle"
    /\ \E c \in AllCalls :
        /\ call' = c
        /\ results' = DocumentSearch(doc, c)
        /\ doc' = DocAfterSearch(doc, c)
    /\ pc' = "returned"
    /\ UNCHANGED others

NextEdge == SearchAny \/ Return

SpecEdge == InitEdge /\ [][NextEdge]_vars

\* the pages the call selects, by their position in doc.pages
Chosen ==
    {p \in 1..Len(doc) : call.pages.kind = "none" \/ doc[p].page \in Listed}

\* the pattern of the call occurs in the text
PatternIn(text) ==
    IF (call.pattern.kind = "str" /\ ~call.case_sensitive)
       \/ (call.pattern.kind = "re" /\ call.pattern.ignorecase)
    THEN ContainsIgnoringCase(text, call.pattern.s)
    ELSE ContainsExactly(text, call.pattern.s)

\* no text the search looks at holds the pattern: no block of a chosen page
\* and, with merge_gap, no run of a chosen page
MatchesNothing ==
    /\ \A p \in Chosen : \A k \in 1..Len(doc[p].texts) : ~PatternIn(doc[p].texts[k].text)
    /\ call.merge_gap.some =>
          \A r \in DocRuns : ~PatternIn(SpaceJoined(RunBlocks(r)))

\* C12: Document.search returns an empty list for a Document with zero
\* pages, for selected pages with zero blocks, and for a pattern that
\* matches nothing, under every combination of case_sensitive, pages,
\* merge_gap (absent or any value) and line_gap (0 included).
C12_EmptyInputsGiveEmptyList ==
    Returned =>
        /\ Len(doc) = 0 => results = <<>>
        /\ (\A p \in Chosen : doc[p].texts = <<>>) => results = <<>>
        /\ MatchesNothing => results = <<>>

\* a merging search with line_gap = 0 that selects an empty page of a
\* Document whose other page has blocks the pattern matches
C12_Witness ==
    /\ Merging /\ call.line_gap = 0
    /\ call.pages.kind = "list"
    /\ Chosen # {}
    /\ \A p \in Chosen : doc[p].texts = <<>>
    /\ \E p \in 1..Len(doc) : \E k \in 1..Len(doc[p].texts) : PatternIn(doc[p].texts[k].text)
    /\ results = <<>>

(***************************************************************************)
(* BaseExtractor (src/xtra/extractors/base.py) with the extract_page of    *)
(* PaddleOcrExtractor (src/xtra/extractors/paddle_ocr.py).  ext holds the  *)
(* extractor (its _images), the page_numbers of the last extract and what  *)
(* it returned.  An image is its size and whether the OCR engine raises    *)
(* RuntimeError on it.                                                     *)
(***************************************************************************)
MaxImages == 2
MaxRequested == 3
MaxCloses == 2

ExtractionResult(page, success, error) ==
    [page |-> page, success |-> success, error |-> error]

ExtractedPage(n, width, height) ==
    [page |-> n, width |-> width, height |-> height, texts |-> <<>>]

Image(width, raises) == [size |-> <<width, width + 1>>, ocr_raises |-> raises]

get_page_count(images) == Len(images)

\* self._images[page]: a negative index counts from the end
ImageAt(images, page) ==
    IF page >= 0 THEN images[page + 1] ELSE images[Len(images) + page + 1]

\* IndexError (raised by the test of the page number, or by the list for a
\* negative index out of range) and RuntimeError are caught
extract_page(images, page) ==
    IF page >= Len(images) \/ page < -Len(images)
    THEN ExtractionResult(ExtractedPage(page, 0, 0), FALSE, Some("IndexError"))
    ELSE LET img == ImageAt(images, page)
         IN  IF img.ocr_raises
             THEN ExtractionResult(ExtractedPage(page, 0, 0), FALSE,
                                   Some("RuntimeError"))
             ELSE ExtractionResult(ExtractedPage(page, img.size[1], img.size[2]),
                                   TRUE, None)

\* range(self.get_page_count())
PageRange(n) == [i \in 1..n |-> i - 1]

extract_pages(images, page_numbers) ==
    LET ns == IF page_numbers.some THEN page_numbers.v
              ELSE PageRange(get_page_count(images))
    IN  [i \in 1..Len(ns) |-> extract_page(images, ns[i])]

\* a mutant of extract: the pages are collected up to the first failure
RECURSIVE PagesUntilFailure(_)
PagesUntilFailure(rs) ==
    IF rs = <<>> \/ ~rs[1].success THEN <<>>
    ELSE <<rs[1].page>> \o PagesUntilFailure(Tail(rs))

ExtractStopsAtFailure(images, page_numbers) ==
    [pages |-> PagesUntilFailure(extract_pages(images, page_numbers)),
     metadata |-> "PADDLE"]

\* the Document (its path left out)
extract(images, page_numbers) ==
    LET rs == extract_pages(images, page_numbers)
        ok == SelectSeq(rs, LAMBDA r : r.success)
    IN  [pages |-> [i \in 1..Len(ok) |-> ok[i].page], metadata |-> "PADDLE"]

Extractors ==
    UNION {[1..k -> {Image(w, r) : w \in {10, 20}, r \in BOOLEAN}] : k \in 0..MaxImages}

PageNumbersArgs ==
    {None} \cup {Some(ns) : ns \in SeqsUpTo(-1..MaxImages, MaxRequested)}

\* the variables of the search and their value where no search is made
search_vars == <<doc, pc, call, results>>

SearchNotInUse ==
    doc = <<>> /\ pc = "not in use" /\ call = NoCall /\ results = <<>>

NoDocument == [pages |-> <<>>, metadata |-> "none"]

\* no extract_page made yet
NoExtraction == ExtractionResult(ExtractedPage(0, 0, 0), FALSE, None)

\* the page numbers handed to extract_page
PageArgs == (-MaxImages - 1)..MaxImages

\* with Extractor(path) as extractor: the extractor, constructed and entered.
\* loaded is the number of images _load_images has opened, scope tells
\* whether the with-block has been left, closed counts the calls of close(),
\* page is the argument of the last extract_page and result what it returned.
InitExtract ==
    /\ ext \in {[images |-> e, loaded |-> Len(e), pc |-> "idle", page_numbers |-> None,
                  document |-> NoDocument, page |-> 0, result |-> NoExtraction,
                  scope |-> "with", closed |-> 0] : e \in Extractors}
    /\ SearchNotInUse
    /\ ocr = NotInUse /\ llm = NotInUse /\ conv = NotInUse /\ tbl = NotInUse

\* document = extractor.extract(page_numbers)
Extract ==
    /\ ext.pc = "idle"
    /\ \E pn \in PageNumbersArgs :
          ext' = [ext EXCEPT !.pc = "returned", !.page_numbers = pn,
                             !.document = extract(ext.images, pn)]
    /\ UNCHANGED <<search_vars, ocr, llm, conv, tbl>>

\* the caller drops the Document
DropDocument ==
    /\ ext.pc = "returned"
    /\ ext' = [ext EXCEPT !.pc = "idle", !.page_numbers = None,
                           !.document = NoDocument]
    /\ UNCHANGED <<search_vars, ocr, llm, conv, tbl>>

\* result = extractor.extract_page(n)
ExtractPage ==
    /\ ext.pc = "idle"
    /\ \E n \in PageArgs :
          ext' = [ext EXCEPT !.pc = "page", !.page = n,
                             !.result = extract_page(ext.images, n)]
    /\ UNCHANGED <<search_vars, ocr, llm, conv, tbl>>

\* the caller drops the ExtractionResult
DropResult ==
    /\ ext.pc = "page"
    /\ ext' = [ext EXCEPT !.pc = "idle", !.page = 0, !.result = NoExtraction]
    /\ UNCHANGED <<search_vars, ocr, llm, conv, tbl>>

\* a mutant of close: the image handles are closed, the list is kept
CloseKeepsImages(images) == images

\* close(): every img.close() is tried, an exception of it is passed over,
\* then self._images = []
close(images) == <<>>

\* extractor.close(), called by the user
Close ==
    /\ ext.pc = "idle"
    /\ ext.closed < MaxCloses
    /\ ext' = [ext EXCEPT !.images = close(@), !.closed = @ + 1]
    /\ UNCHANGED <<search_vars, ocr, llm, conv, tbl>>

\* __exit__(*args): the with-block is left, by its end or by an exception
\* of its body (args are not looked at), and close() is called
Exit ==
    /\ ext.pc = "idle"
    /\ ext.scope = "with"
    /\ ext' = [ext EXCEPT !.scope = "left", !.images = close(@), !.closed = @ + 1]
    /\ UNCHANGED <<search_vars, ocr, llm, conv, tbl>>

NextExtract == Extract \/ DropDocument \/ ExtractPage \/ DropResult \/ Close \/ Exit

SpecExtract == InitExtract /\ [][NextExtract]_vars

\* the page numbers the last extract was asked for
Requested ==
    IF ext.page_numbers.some THEN ext.page_numbers.v
    ELSE [i \in 1..Len(ext.images) |-> i - 1]

\* the positions in Requested of the pages whose extraction succeeded
Succeeded ==
    {i \in 1..Len(Requested) : extract_page(ext.images, Requested[i]).success}

\* the k-th of them
KthSucceeded(k) ==
    CHOOSE i \in Succeeded : Cardinality({j \in Succeeded : j < i}) = k - 1

\* C14: BaseExtractor.extract(page_numbers) returns a Document whose pages
\* are exactly the pages of the extract_page results that succeeded, in
\* the order the page numbers were requested (0..page_count-1 when
\* page_numbers is absent); a page whose extraction failed is absent and
\* does not stop the extraction of the pages after it.
C14_SucceededPagesInOrder ==
    ext.pc = "returned" =>
        LET pages == ext.document.pages
        IN  /\ Len(pages) = Cardinality(Succeeded)
            /\ \A k \in 1..Len(pages) :
                  /\ pages[k] = extract_page(ext.images, Requested[KthSucceeded(k)]).page
                  /\ pages[k].page = Requested[KthSucceeded(k)]
                  /\ pages[k].width > 0

\* pages requested in descending order, the second fails in the OCR engine,
\* the page requested after it is in the Document
C14_Witness ==
    /\ ext.pc = "returned"
    /\ ext.page_numbers = Some(<<1, 0, 1>>)
    /\ Len(ext.images) = 2
    /\ ext.images[1].ocr_raises /\ ~ext.images[2].ocr_raises
    /\ Len(ext.document.pages) = 2
    /\ ext.document.pages[2].page = 1

(***************************************************************************)
(* PaddleOCR output to TextBlocks: the adapter                             *)
(* (src/xtra/adapters/paddle_ocr.py), which validates every detection, and *)
(* _convert_results of the extractor (src/xtra/extractors/paddle_ocr.py),  *)
(* which does not.  A polygon is a list of points, a point a list of       *)
(* coordinates.  What a function returns is Ok(value), or Raised(kind)     *)
(* when it raises.  ocr holds the raw result of the OCR engine and what    *)
(* the conversion made of it.                                              *)
(***************************************************************************)
POLYGON_POINTS == 4
COORDINATES_PER_POINT == 2

MaxPolygonPoints == 5

Ok(value) == [raised |-> "no", value |-> value]
Raised(kind) == [raised |-> kind, value |-> <<>>]

\* a mutant of validate_polygon: len(v) < POLYGON_POINTS
ValidatePolygonAtLeast(v) ==
    IF Len(v) < POLYGON_POINTS THEN Raised("ValueError")
    ELSE IF \E i \in 1..Len(v) : Len(v[i]) # COORDINATES_PER_POINT
         THEN Raised("ValueError")
         ELSE Ok(v)

validate_polygon(v) ==
    IF Len(v) # POLYGON_POINTS THEN Raised("ValueError")
    ELSE IF \E i \in 1..Len(v) : Len(v[i]) # COORDINATES_PER_POINT
         THEN Raised("ValueError")
         ELSE Ok(v)

\* PaddleOCRDetection(polygon=..., text=..., confidence=...): pydantic turns
\* the ValueError of the validator into a ValidationError
PaddleOCRDetection(polygon, text, confidence) ==
    LET v == validate_polygon(polygon)
    IN  IF v.raised # "no" THEN Raised("ValidationError")
        ELSE Ok([polygon |-> v.value, text |-> text, confidence |-> confidence])

\* an item of the raw result: None, or [bbox, (text, confidence)]
NoneItem == [is_none |-> TRUE, polygon |-> <<>>, text |-> <<>>, confidence |-> 0]
Item(polygon, text, confidence) ==
    [is_none |-> FALSE, polygon |-> polygon, text |-> text, confidence |-> confidence]

from_paddle_format(item) ==
    PaddleOCRDetection(item.polygon, item.text, item.confidence)

\* the loop of from_paddle_output: the first detection that fails to
\* validate ends it
RECURSIVE DetectionsLoop(_, _)
DetectionsLoop(items, detections) ==
    IF items = <<>> THEN Ok(detections)
    ELSE IF items[1].is_none THEN DetectionsLoop(Tail(items), detections)
    ELSE LET d == from_paddle_format(items[1])
         IN  IF d.raised # "no" THEN d
             ELSE DetectionsLoop(Tail(items), Append(detections, d.value))

\* result is None, [] or [items]
from_paddle_output(result) ==
    IF ~result.some \/ result.v = <<>> \/ result.v[1] = <<>> THEN Ok(<<>>)
    ELSE DetectionsLoop(result.v[1], <<>>)

\* not text or not text.strip()
IsBlank(text) == \A i \in 1..Len(text) : text[i] = " "

\* math.degrees(math.atan2(dy, dx)) in whole degrees, for dx, dy in -2..2
\* and not both 0
Atan2Degrees(dy, dx) ==
    LET ady == IF dy < 0 THEN -dy ELSE dy
        adx == IF dx < 0 THEN -dx ELSE dx
        acute == CASE ady = 0 -> 0
                   [] adx = 0 -> 90
                   [] ady = adx -> 45
                   [] ady < adx -> 27
                   [] OTHER -> 63
        upper == IF dx >= 0 THEN acute ELSE 180 - acute
    IN  IF dy >= 0 THEN upper ELSE -upper

\* a mutant of _polygon_to_bbox_and_rotation: the first point taken for the
\* top-left corner
PolygonFromFirstPoint(polygon) ==
    LET xs == {polygon[i][1] : i \in 1..Len(polygon)}
        ys == {polygon[i][2] : i \in 1..Len(polygon)}
        dx == polygon[2][1] - polygon[1][1]
        dy == polygon[2][2] - polygon[1][2]
    IN  [bbox |-> BBox(polygon[1][1], polygon[1][2], Max(xs), Max(ys)),
         rotation |-> IF dx # 0 \/ dy # 0 THEN Atan2Degrees(dy, dx) ELSE 0]

\* for a polygon of two points or more, each of two coordinates or more
_polygon_to_bbox_and_rotation(polygon) ==
    LET xs == {polygon[i][1] : i \in 1..Len(polygon)}
        ys == {polygon[i][2] : i \in 1..Len(polygon)}
        dx == polygon[2][1] - polygon[1][1]
        dy == polygon[2][2] - polygon[1][2]
    IN  [bbox |-> BBox(Min(xs), Min(ys), Max(xs), Max(ys)),
         rotation |-> IF dx # 0 \/ dy # 0 THEN Atan2Degrees(dy, dx) ELSE 0]

\* TextBlock(text=..., bbox=..., rotation=..., confidence=...); the adapter
\* calls polygon_to_bbox_and_rotation of the geometry module, the reduction
\* the extractor has as a method
OcrTextBlock(text, polygon, confidence) ==
    LET br == _polygon_to_bbox_and_rotation(polygon)
    IN  TextBlock(0, text, br.bbox, br.rotation, Some(confidence), None)

\* PaddleOCRAdapter._detections_to_blocks
RECURSIVE _detections_to_blocks(_)
_detections_to_blocks(detections) ==
    IF detections = <<>> THEN <<>>
    ELSE LET d == detections[1]
             rest == _detections_to_blocks(Tail(detections))
         IN  IF IsBlank(d.text) THEN rest
             ELSE <<OcrTextBlock(d.text, d.polygon, d.confidence)>> \o rest

\* PaddleOCRAdapter.convert_result
convert_result(result) ==
    LET validated == from_paddle_output(result)
    IN  IF validated.raised # "no" THEN validated
        ELSE Ok(_detections_to_blocks(validated.value))

\* what _polygon_to_bbox_and_rotation raises on a polygon as it comes:
\* p[0], p[1] of a point too short, min() of no point, polygon[1] of one point
PolygonError(polygon) ==
    IF \E i \in 1..Len(polygon) : Len(polygon[i]) < 2 THEN "IndexError"
    ELSE IF polygon = <<>> THEN "ValueError"
    ELSE IF Len(polygon) = 1 THEN "IndexError"
    ELSE "no"

\* the loop of PaddleOcrExtractor._convert_results
RECURSIVE ConvertLoop(_, _)
ConvertLoop(items, blocks) ==
    IF items = <<>> THEN Ok(blocks)
    ELSE IF items[1].is_none \/ IsBlank(items[1].text)
         THEN ConvertLoop(Tail(items), blocks)
    ELSE IF PolygonError(items[1].polygon) # "no"
         THEN Raised(PolygonError(items[1].polygon))
    ELSE ConvertLoop(Tail(items),
                     Append(blocks, OcrTextBlock(items[1].text, items[1].polygon,
                                                 items[1].confidence)))

_convert_results(result) ==
    IF ~result.some \/ result.v = <<>> \/ result.v[1] = <<>> THEN Ok(<<>>)
    ELSE ConvertLoop(result.v[1], <<>>)

GoodPoints == {<<0, 0>>, <<2, 1>>, <<1, 2>>, <<0, 2>>}
BadPoints == {<<>>, <<1>>, <<1, 2, 0>>}

\* the polygons of any number of points, and those of four points one of
\* which has not two coordinates
Polygons ==
    SeqsUpTo(GoodPoints, MaxPolygonPoints)
    \cup {[poly EXCEPT ![i] = bad] :
            poly \in [1..POLYGON_POINTS -> GoodPoints],
            i \in 1..POLYGON_POINTS, bad \in BadPoints}

GoodItem == Item(<<<<0, 0>>, <<2, 0>>, <<2, 1>>, <<0, 1>>>>, <<"o", "k">>, 9)

\* ocr.ocr(...) returned None, [], [[]], or one list of items
RawResults ==
    {None, Some(<<>>), Some(<<<<>>>>), Some(<<<<NoneItem>>>>)}
    \cup {Some(<<pre \o <<Item(poly, text, 5)>> \o post>>) :
            poly \in Polygons, text \in {<<"a">>, <<" ">>},
            pre \in {<<>>, <<NoneItem, GoodItem>>}, post \in {<<>>, <<GoodItem>>}}

InitOcr ==
    /\ ocr \in {[pc |-> "raw", result |-> r, outcome |-> Ok(<<>>)] : r \in RawResults}
    /\ SearchNotInUse
    /\ ext = NotInUse /\ llm = NotInUse /\ conv = NotInUse /\ tbl = NotInUse

\* blocks = PaddleOCRAdapter().convert_result(result)
ConvertByAdapter ==
    /\ ocr.pc = "raw"
    /\ ocr' = [ocr EXCEPT !.pc = "adapter", !.outcome = convert_result(ocr.result)]
    /\ UNCHANGED <<search_vars, ext, llm, conv, tbl>>

\* text_blocks = self._convert_results(result), in extract_page
ConvertByExtractor ==
    /\ ocr.pc = "raw"
    /\ ocr' = [ocr EXCEPT !.pc = "extractor", !.outcome = _convert_results(ocr.result)]
    /\ UNCHANGED <<search_vars, ext, llm, conv, tbl>>

NextOcr == ConvertByAdapter \/ ConvertByExtractor

SpecOcr == InitOcr /\ [][NextOcr]_vars

\* the items of the raw result that are not None
RawItems ==
    IF ~ocr.result.some \/ ocr.result.v = <<>> THEN <<>>
    ELSE SelectSeq(ocr.result.v[1], LAMBDA item : ~item.is_none)

\* a polygon of exactly 4 points of exactly 2 coordinates each
WellFormed(polygon) ==
    /\ Len(polygon) = 4
    /\ \A i \in 1..Len(polygon) : Len(polygon[i]) = 2

\* C15: building a PaddleOCRDetection from a polygon that has not exactly
\* 4 points, or a point of which has not exactly 2 coordinates, fails with
\* a validation error: no detection and no TextBlock is made of such
\* input, and a polygon that is accepted is kept as it came.
C15_MalformedPolygonRejected ==
    ocr.pc = "adapter" =>
        /\ \A k \in 1..Len(RawItems) :
              LET d == PaddleOCRDetection(RawItems[k].polygon, RawItems[k].text,
                                          RawItems[k].confidence)
              IN  IF WellFormed(RawItems[k].polygon)
                  THEN d.raised = "no" /\ d.value.polygon = RawItems[k].polygon
                  ELSE d.raised = "ValidationError" /\ d.value = <<>>
        /\ (\E k \in 1..Len(RawItems) : ~WellFormed(RawItems[k].polygon)) =>
              ocr.outcome = Raised("ValidationError")
        /\ (\A k \in 1..Len(RawItems) : WellFormed(RawItems[k].polygon)) =>
              /\ ocr.outcome.raised = "no"
              /\ Len(ocr.outcome.value) =
                    Len(SelectSeq(RawItems, LAMBDA item : ~IsBlank(item.text)))

\* a detection of five points after a good one: the conversion raises and
\* gives no block, not even that of the good detection
C15_Witness ==
    /\ ocr.pc = "adapter"
    /\ Len(RawItems) >= 2
    /\ WellFormed(RawItems[1].polygon)
    /\ Len(RawItems[2].polygon) = 5
    /\ \A i \in 1..5 : Len(RawItems[2].polygon[i]) = 2
    /\ ocr.outcome = Raised("ValidationError")

\* the detections a block is made of: the items with a text
Sources == SelectSeq(RawItems, LAMBDA item : ~IsBlank(item.text))

\* bb is (min x, min y, max x, max y) of the points
BoundsPoints(bb, polygon) ==
    /\ \A i \in 1..Len(polygon) :
          /\ bb.x0 <= polygon[i][1] /\ polygon[i][1] <= bb.x1
          /\ bb.y0 <= polygon[i][2] /\ polygon[i][2] <= bb.y1
    /\ \E i \in 1..Len(polygon) : bb.x0 = polygon[i][1]
    /\ \E i \in 1..Len(polygon) : bb.x1 = polygon[i][1]
    /\ \E i \in 1..Len(polygon) : bb.y0 = polygon[i][2]
    /\ \E i \in 1..Len(polygon) : bb.y1 = polygon[i][2]

\* the polygon with its points in another order
Reordered(polygon, perm) == [i \in 1..Len(polygon) |-> polygon[perm[i]]]

\* C16: for every 4-point polygon, whatever the order of its points, the
\* BBox the polygon reduction makes is (min x, min y, max x, max y) of the
\* points, and so has x0 <= x1 and y0 <= y1.
C16_PolygonReducedToBounds ==
    (ocr.pc \in {"adapter", "extractor"} /\ ocr.outcome.raised = "no") =>
        /\ Len(ocr.outcome.value) = Len(Sources)
        /\ \A k \in 1..Len(Sources) :
              LET polygon == Sources[k].polygon
                  bb == ocr.outcome.value[k].bbox
              IN  WellFormed(polygon) =>
                      /\ BoundsPoints(bb, polygon)
                      /\ bb.x0 <= bb.x1 /\ bb.y0 <= bb.y1
                      /\ \A perm \in Permutations(1..4) :
                            _polygon_to_bbox_and_rotation(Reordered(polygon, perm)).bbox
                                = bb

\* a block made by the extractor of a polygon whose first point is its
\* bottom-right corner and whose third point is not a corner of the bbox
C16_Witness ==
    /\ ocr.pc = "extractor" /\ ocr.outcome.raised = "no"
    /\ Len(Sources) = 1
    /\ Sources[1].polygon = <<<<2, 1>>, <<0, 0>>, <<1, 2>>, <<0, 2>>>>
    /\ ocr.outcome.value[1].bbox = BBox(0, 0, 2, 2)

(***************************************************************************)
(* extract_structured_parallel and extract_structured_parallel_async       *)
(* (unifex.llm_factory): one task per requested page, at most max_workers  *)
(* of them running at a time (the threads of a pool, or the coroutines     *)
(* that hold the semaphore), each calling the per-page extractor with      *)
(* pages=[page]; the results are gathered when every task has finished.    *)
(* llm holds the call, the state of every task, the order in which the     *)
(* tasks finished and the LLMBatchExtractionResult.                        *)
(***************************************************************************)
MaxLlmPages == 3
MaxWorkers == 2

\* src/unifex/llm/models.py
PageExtractionResult(page, data, usage, error) ==
    [page |-> page, data |-> data, usage |-> usage, error |-> error]

LLMBatchExtractionResult(rs) == [results |-> rs, model |-> "gpt-4o"]

\* the message of the exception the per-page extractor raises for a page
ErrorMessage(page) == <<"API error for page", page>>

\* a mutant of ExtractOnePage: the exception is swallowed, its message lost
ExtractOnePageErrorLost(page, error_pages) ==
    IF page \in error_pages
    THEN PageExtractionResult(page, None, None, None)
    ELSE PageExtractionResult(page, Some(<<page>>), Some(150), None)

\* one task: the per-page extractor called for [page]; an exception it
\* raises is caught and kept as the error of the page
ExtractOnePage(page, error_pages) ==
    IF page \in error_pages
    THEN PageExtractionResult(page, None, None, Some(ErrorMessage(page)))
    ELSE PageExtractionResult(page, Some(<<page>>), Some(150), None)

\* a mutant of GatherResults: the results in the order the tasks finished
GatherAsCompleted(slots, finished) ==
    [k \in 1..Len(finished) |-> slots[finished[k]]]

\* the results of the tasks, in the order of the requested pages
GatherResults(slots, finished) == [i \in 1..Len(slots) |-> slots[i]]

NoResult == PageExtractionResult(-1, None, None, None)

LlmIdle ==
    [pc |-> "idle", kind |-> "none", pages |-> <<>>, max_workers |-> 0,
     error_pages |-> {}, task |-> <<>>, slots |-> <<>>, finished |-> <<>>,
     batch |-> LLMBatchExtractionResult(<<>>)]

InitLlm ==
    /\ llm = LlmIdle
    /\ SearchNotInUse
    /\ ext = NotInUse /\ ocr = NotInUse /\ conv = NotInUse /\ tbl = NotInUse

\* extract_structured_parallel(path, pages=..., max_workers=...), or its
\* async form, is called: one task per page is submitted
StartParallel ==
    /\ llm.pc = "idle"
    /\ \E kind \in {"thread", "async"},
          pages \in DistinctSeqsUpTo(0..(MaxLlmPages - 1), MaxLlmPages),
          max_workers \in 1..MaxWorkers,
          error_pages \in SUBSET (0..(MaxLlmPages - 1)) :
            llm' = [llm EXCEPT !.pc = "running", !.kind = kind, !.pages = pages,
                               !.max_workers = max_workers,
                               !.error_pages = error_pages,
                               !.task = [i \in 1..Len(pages) |-> "queued"],
                               !.slots = [i \in 1..Len(pages) |-> NoResult]]
    /\ UNCHANGED <<search_vars, ext, ocr, conv, tbl>>

\* a worker takes the next task of the queue
TaskStart ==
    /\ llm.pc = "running"
    /\ Cardinality({i \in 1..Len(llm.pages) : llm.task[i] = "running"}) < llm.max_workers
    /\ \E i \in 1..Len(llm.pages) :
        /\ llm.task[i] = "queued"
        /\ \A j \in 1..(i - 1) : llm.task[j] # "queued"
        /\ llm' = [llm EXCEPT !.task[i] = "running"]
    /\ UNCHANGED <<search_vars, ext, ocr, conv, tbl>>

\* a running task finishes, whichever it is
TaskFinish ==
    /\ llm.pc = "running"
    /\ \E i \in 1..Len(llm.pages) :
        /\ llm.task[i] = "running"
        /\ llm' = [llm EXCEPT !.task[i] = "finished",
                               !.slots[i] = ExtractOnePage(llm.pages[i], llm.error_pages),
                               !.finished = Append(@, i)]
    /\ UNCHANGED <<search_vars, ext, ocr, conv, tbl>>

\* every task has finished: the call returns the LLMBatchExtractionResult
Gather ==
    /\ llm.pc = "running"
    /\ \A i \in 1..Len(llm.pages) : llm.task[i] = "finished"
    /\ llm' = [llm EXCEPT !.pc = "returned",
                           !.batch = LLMBatchExtractionResult(
                                        GatherResults(llm.slots, llm.finished))]
    /\ UNCHANGED <<search_vars, ext, ocr, conv, tbl>>

NextLlm == StartParallel \/ TaskStart \/ TaskFinish \/ Gather

SpecLlm == InitLlm /\ [][NextLlm]_vars

\* C17: extract_structured_parallel and extract_structured_parallel_async
\* return exactly one PageExtractionResult per requested page, in the
\* order the pages were requested, whatever order the workers finish in.
C17_OneResultPerPageInOrder ==
    llm.pc = "returned" =>
        /\ Len(llm.batch.results) = Len(llm.pages)
        /\ \A i \in 1..Len(llm.pages) : llm.batch.results[i].page = llm.pages[i]

\* three pages requested out of order, the task of the last finished first
C17_Witness ==
    /\ llm.pc = "returned"
    /\ llm.pages = <<2, 0, 1>>
    /\ llm.finished = <<2, 1, 3>>
    /\ llm.batch.results[1].page = 2

\* C18: when the per-page extractor raises for a requested page, the call
\* does not raise: the result of that page has no data and the message of
\* the failure as its error, and every other requested page has a result
\* with data and without error.
C18_PageErrorsCaptured ==
    llm.pc = "returned" =>
        /\ Len(llm.batch.results) = Len(llm.pages)
        /\ \A i \in 1..Len(llm.batch.results) :
              LET r == llm.batch.results[i]
              IN  IF llm.pages[i] \in llm.error_pages
                  THEN ~r.data.some /\ r.error = Some(ErrorMessage(llm.pages[i]))
                  ELSE r.data = Some(<<llm.pages[i]>>) /\ ~r.error.some

\* the second of three pages fails, by the async form
C18_Witness ==
    /\ llm.pc = "returned" /\ llm.kind = "async"
    /\ llm.pages = <<0, 1, 2>> /\ llm.error_pages = {1}
    /\ llm.batch.results[2].error.some
    /\ llm.batch.results[1].data.some /\ llm.batch.results[3].data.some

(***************************************************************************)
(* The coordinate converter (CoordinateConverter, spec section 4.1).       *)
(* Numbers are exact fractions [n, d] in lowest terms.  A converter is     *)
(* made with its source unit, the page width and height in that unit (in   *)
(* points when the source unit is NORMALIZED, which has no page size of    *)
(* its own) and a DPI.  conv holds a BBox, the converter of its unit, the  *)
(* unit it is converted to, and the BBoxes the conversions returned.       *)
(***************************************************************************)
MaxCoord == 3

RECURSIVE GCD(_, _)
GCD(a, b) == IF b = 0 THEN a ELSE GCD(b, a % b)

Rat(n, d) == LET g == GCD(n, d) IN [n |-> n \div g, d |-> d \div g]
RatMul(a, b) == Rat(a.n * b.n, a.d * b.d)
RatDiv(a, b) == Rat(a.n * b.d, a.d * b.n)

Units == {"POINTS", "PIXELS", "INCHES", "NORMALIZED"}

CoordinateConverter(source_unit, page_width, page_height, dpi) ==
    [source_unit |-> source_unit, page_width |-> page_width,
     page_height |-> page_height, dpi |-> dpi]

\* a mutant of ToPoints: pixels to points by DPI/72
ToPointsPixelsInverted(c, value, dim) ==
    CASE c.source_unit = "POINTS" -> value
      [] c.source_unit = "PIXELS" -> RatMul(value, Rat(c.dpi, 72))
      [] c.source_unit = "INCHES" -> RatMul(value, Rat(72, 1))
      [] c.source_unit = "NORMALIZED" -> RatMul(value, dim)

\* points = pixels * 72 / DPI = inches * 72 = normalized * page dimension
ToPoints(c, value, dim) ==
    CASE c.source_unit = "POINTS" -> value
      [] c.source_unit = "PIXELS" -> RatMul(value, Rat(72, c.dpi))
      [] c.source_unit = "INCHES" -> RatMul(value, Rat(72, 1))
      [] c.source_unit = "NORMALIZED" -> RatMul(value, dim)

\* pixels = points * DPI / 72, inches = points / 72
FromPoints(c, points, target_unit) ==
    CASE target_unit = "POINTS" -> points
      [] target_unit = "PIXELS" -> RatMul(points, Rat(c.dpi, 72))
      [] target_unit = "INCHES" -> RatDiv(points, Rat(72, 1))

\* NORMALIZED = value / page dimension on the matching axis, not clamped
convert_value(c, value, target_unit, is_x) ==
    LET dim == IF is_x THEN c.page_width ELSE c.page_height
    IN  IF target_unit = c.source_unit THEN value
        ELSE IF target_unit = "NORMALIZED" THEN RatDiv(value, dim)
        ELSE FromPoints(c, ToPoints(c, value, dim), target_unit)

convert_bbox(c, bbox, target_unit) ==
    BBox(convert_value(c, bbox.x0, target_unit, TRUE),
         convert_value(c, bbox.y0, target_unit, FALSE),
         convert_value(c, bbox.x1, target_unit, TRUE),
         convert_value(c, bbox.y1, target_unit, FALSE))

\* the width or height of the page in points
PagePoints(c, dim) ==
    IF c.source_unit = "NORMALIZED" THEN dim ELSE ToPoints(c, dim, dim)

\* the converter of the same page for coordinates in target_unit: the
\* caller gives it the page size in that unit
ConverterFor(c, target_unit) ==
    LET unit == IF target_unit = "NORMALIZED" THEN "POINTS" ELSE target_unit
    IN  CoordinateConverter(target_unit,
                            FromPoints(c, PagePoints(c, c.page_width), unit),
                            FromPoints(c, PagePoints(c, c.page_height), unit),
                            c.dpi)

Converters ==
    {CoordinateConverter(u, Rat(w, 1), Rat(w + 2, 1), dpi) :
        u \in Units, w \in {4, 9}, dpi \in {96, 200}}

BBoxes ==
    {BBox(Rat(x0, 1), Rat(y0, 1), Rat(x1, 1), Rat(y1, 1)) :
        x0 \in 0..MaxCoord, y0 \in 0..MaxCoord, x1 \in 0..MaxCoord, y1 \in 1..MaxCoord}

InitConv ==
    /\ conv \in {[pc |-> "start", converter |-> c, bbox |-> b, target_unit |-> u,
                   there |-> b, back |-> b] :
                     c \in Converters, u \in Units,
                     b \in {bb \in BBoxes : bb.x0.n <= bb.x1.n /\ bb.y0.n <= bb.y1.n}}
    /\ SearchNotInUse
    /\ ext = NotInUse /\ ocr = NotInUse /\ llm = NotInUse /\ tbl = NotInUse

\* there = converter.convert_bbox(bbox, target_unit)
ConvertThere ==
    /\ conv.pc = "start"
    /\ conv' = [conv EXCEPT !.pc = "there",
                             !.there = convert_bbox(conv.converter, conv.bbox,
                                                    conv.target_unit)]
    /\ UNCHANGED <<search_vars, ext, ocr, llm, tbl>>

\* back = CoordinateConverter(target_unit, ...).convert_bbox(there, source_unit)
ConvertBack ==
    /\ conv.pc = "there"
    /\ conv' = [conv EXCEPT !.pc = "back",
                             !.back = convert_bbox(
                                          ConverterFor(conv.converter, conv.target_unit),
                                          conv.there, conv.converter.source_unit)]
    /\ UNCHANGED <<search_vars, ext, ocr, llm, tbl>>

NextConv == ConvertThere \/ ConvertBack

SpecConv == InitConv /\ [][NextConv]_vars

MaxCells == 2
MaxDim == 2

TableCell(text, row, col) == [text |-> text, row |-> row, col |-> col]

Table(cells, row_count, col_count) ==
    [cells |-> cells, row_count |-> row_count, col_count |-> col_count]

\* grid.get((row_idx, col_idx), ""): in the dict comprehension a later cell
\* replaces an earlier one of the same key
GridGet(cells, row_idx, col_idx) ==
    LET at == {i \in 1..Len(cells) : cells[i].row = row_idx /\ cells[i].col = col_idx}
    IN  IF at = {} THEN "" ELSE cells[Max(at)].text

\* pd.DataFrame(data) of a list of rows: without rows it has no columns
DataFrame(data) ==
    [shape |-> <<Len(data), IF data = <<>> THEN 0 ELSE Len(data[1])>>,
     values |-> data]

\* range(n) is empty for n <= 0; row r of data is row_idx = r - 1
to_dataframe(table) ==
    DataFrame([r \in 1..table.row_count |->
                  [c \in 1..table.col_count |-> GridGet(table.cells, r - 1, c - 1)]])

Tables ==
    {Table(cells, row_count, col_count) :
        cells \in SeqsUpTo({TableCell(t, r, c) :
                              t \in {"x", "y"}, r \in 0..MaxDim, c \in 0..1}, MaxCells),
        row_count \in 0..MaxDim, col_count \in 0..2}

NoFrame == DataFrame(<<>>)

InitTable ==
    /\ tbl \in {[pc |-> "table", table |-> t, frame |-> NoFrame] : t \in Tables}
    /\ SearchNotInUse
    /\ ext = NotInUse /\ ocr = NotInUse /\ llm = NotInUse /\ conv = NotInUse

\* frame = table.to_dataframe()
ToDataframe ==
    /\ tbl.pc = "table"
    /\ tbl' = [tbl EXCEPT !.pc = "frame", !.frame = to_dataframe(tbl.table)]
    /\ UNCHANGED <<search_vars, ext, ocr, llm, conv>>

\* the caller drops the DataFrame
DropFrame ==
    /\ tbl.pc = "frame"
    /\ tbl' = [tbl EXCEPT !.pc = "table", !.frame = NoFrame]
    /\ UNCHANGED <<search_vars, ext, ocr, llm, conv>>

NextTable == ToDataframe \/ DropFrame

SpecTable == InitTable /\ [][NextTable]_vars

\* the cells recorded at (r, c), rows and columns counted from 0
RecordedAt(r, c) ==
    {i \in 1..Len(tbl.table.cells) :
        tbl.table.cells[i].row = r /\ tbl.table.cells[i].col = c}

\* C20: Table.to_dataframe builds a dense grid of exactly row_count rows
\* by col_count columns in which position (r, c) holds the text of the
\* cell recorded at (r, c), and the empty string where no cell is recorded.
C20_DenseGrid ==
    tbl.pc = "frame" =>
        /\ tbl.frame.shape = <<tbl.table.row_count, tbl.table.col_count>>
        /\ Len(tbl.frame.values) = tbl.table.row_count
        /\ \A r \in 1..Len(tbl.frame.values) :
              /\ Len(tbl.frame.values[r]) = tbl.table.col_count
              /\ \A c \in 1..Len(tbl.frame.values[r]) :
                    IF RecordedAt(r - 1, c - 1) = {}
                    THEN tbl.frame.values[r][c] = ""
                    ELSE \E i \in RecordedAt(r - 1, c - 1) :
                            tbl.frame.values[r][c] = tbl.table.cells[i].text

(***************************************************************************)
(* The line grouping and the merge of _search_blocks on one page whose     *)
(* blocks lie above and below y = 0 and overlap horizontally, searched     *)
(* with merge_gap below, at and above 0 and line_gap 0 and 2.              *)
(***************************************************************************)
MaxLineBlocks == 3

\* y0 of a block: with line_gap = 2, int() gives -2, -1, 0, 0
LineYs == {-4, -3, -1, 1}

\* (x0, x1) of a block: the first reaches over the other two
LineXs == {<<0, 3>>, <<1, 1>>, <<2, 2>>}

LineBlockUniverse ==
    {Block(IF x = <<1, 1>> THEN TextB ELSE TextA, x, y) : x \in LineXs, y \in LineYs}

LineDocs ==
    {WithStored(<<Page(0, texts)>>) :
        texts \in DistinctSeqsUpTo(LineBlockUniverse, MaxLineBlocks)}

LineCalls ==
    {Call(p, TRUE, PagesNone, Some(mg), lg) :
        p \in {StrPattern(<<"a">>), StrPattern(<<"a", " ", "B">>)},
        mg \in {-2, 0, 1}, lg \in {0, 2}}

InitLines ==
    /\ doc \in LineDocs
    /\ pc = "idle"
    /\ call = NoCall
    /\ results = <<>>
    /\ ext = NotInUse /\ ocr = NotInUse /\ llm = NotInUse
    /\ conv = NotInUse /\ tbl = NotInUse

\* results = doc.search(pattern, merge_gap=..., line_gap=...)
SearchLines ==
    /\ pc = "idle"
    /\ \E c \in LineCalls :
        /\ call' = c
        /\ results' = DocumentSearch(doc, c)
        /\ doc' = DocAfterSearch(doc, c)
    /\ pc' = "returned"
    /\ UNCHANGED others

NextLines == SearchLines \/ Return

SpecLines == InitLines /\ [][NextLines]_vars

\* floor(a / b) for b > 0
FloorDiv(a, b) == a \div b

\* the blocks of the searched page
PageBlocks == Range(doc[1].texts)

\* C21: two blocks of a page are placed in the same line group if and only
\* if floor(y0 / line_gap) is the same for both, for every line_gap > 0 and
\* every y0, negative y0 included.
C21_SameLineIffSameFloor ==
    (Merging /\ call.line_gap > 0) =>
        \A a, b \in PageBlocks :
            (LineKey(a, call.line_gap) = LineKey(b, call.line_gap))
                <=> (FloorDiv(a.bbox.y0, call.line_gap) = FloorDiv(b.bbox.y0, call.line_gap))

\* the two blocks s[k], s[k + 1] of line s are in the same run
SameRun(s, k) ==
    LET runs == GapRuns(s, call.merge_gap.v)
    IN  RunIndex(runs, k) = RunIndex(runs, k + 1)

\* C22: two same-line blocks that overlap horizontally
\* (current.x0 - previous.x1 < 0, previous being the block just before in
\* ascending x0 order) are merged into the same run, for every merge_gap.
C22_OverlapAlwaysMerged ==
    Merging =>
        \A s \in LinesOf(doc[1]) :
            \A k \in 1..(Len(s) - 1) : GapAfter(s, k) < 0 => SameRun(s, k)

\* C22, amended: two same-line blocks that overlap horizontally are merged
\* into the same run for every merge_gap >= 0; for a negative merge_gap
\* they are merged exactly when current.x0 - previous.x1 <= merge_gap.
C22_OverlapMergedWhenGapNotNegative ==
    Merging =>
        \A s \in LinesOf(doc[1]) :
            \A k \in 1..(Len(s) - 1) :
                /\ (call.merge_gap.v >= 0 /\ GapAfter(s, k) < 0) => SameRun(s, k)
                /\ call.merge_gap.v < 0 =>
                      (SameRun(s, k) <=> GapAfter(s, k) <= call.merge_gap.v)

\* merge_gap = 0: two overlapping blocks returned as one merged block
C22_Witness ==
    /\ Merging /\ call.merge_gap.v = 0
    /\ \E s \in LinesOf(doc[1]) :
          /\ Len(s) = 2 /\ GapAfter(s, 1) < 0
          /\ \E i \in 1..Len(results) :
                /\ results[i].block.obj = 0
                /\ results[i].block.text = SpaceJoined(s)

\* the blocks of the results of the call made without merge_gap on all
\* pages, restricted to the page stored at position p
UnmergedOfPage(p) ==
    SelectSeq(ResultBlocks(DocumentSearch(doc, [call EXCEPT !.merge_gap = None,
                                                            !.pages = PagesNone])),
              LAMBDA b : \E k \in 1..Len(doc[p].texts) : doc[p].texts[k].obj = b.obj)

\* C23: Page.search returns exactly the blocks of page.texts whose text
\* contains a match, whole and unmerged, in page.texts order; they are the
\* same blocks in the same order as the result blocks of Document.search
\* with merge_gap absent restricted to that page.
C23_PageSearchIsUnmergedSearch ==
    Returned =>
        \A p \in 1..Len(doc) :
            LET found == Page_search(doc[p], call.pattern, call.case_sensitive)
            IN  /\ found = SelectSeq(doc[p].texts, LAMBDA b : PatternIn(b.text))
                /\ found = UnmergedOfPage(p)

\* a page of which Page.search finds two blocks, stored right to left, and
\* leaves one out
C23_Witness ==
    /\ Returned
    /\ \E p \in 1..Len(doc) :
          LET found == Page_search(doc[p], call.pattern, call.case_sensitive)
          IN  /\ Len(found) = 2 /\ Len(doc[p].texts) = 3
              /\ found[1].bbox.x0 > found[2].bbox.x0
              /\ found[1].obj # 0

\* the page number of the last extract_page is outside [0, page_count)
OutOfRange == ext.page < 0 \/ ext.page >= get_page_count(ext.images)

\* the result of a failed extraction: an error message and a placeholder Page
FailedResult(r, n) ==
    /\ ~r.success
    /\ r.error.some
    /\ r.page = ExtractedPage(n, 0, 0)

\* C24: extract_page(n) never raises for a page number n outside
\* [0, page_count): for every such n, above the range or negative, it
\* returns an ExtractionResult with success false, an error message set and
\* a placeholder Page with no texts.
C24_OutOfRangeFails ==
    (ext.pc = "page" /\ OutOfRange) => FailedResult(ext.result, ext.page)

\* C25: with merge_gap provided and line_gap = 0, all blocks of a page are
\* placed in one single line group (every block is treated as on the same
\* line) and the search completes without a division error: it returns the
\* matching runs of that one line.
C25_ZeroLineGapOneLine ==
    (Merging /\ call.line_gap = 0) =>
        /\ \A a, b \in PageBlocks : LineKey(a, 0) = LineKey(b, 0)
        /\ Cardinality(LinesOf(doc[1])) <= 1
        /\ \A s \in LinesOf(doc[1]) : s = SortedByX0(doc[1].texts)
        /\ ResultBlocks(results) =
              SelectSeq(_merge_blocks_by_gap(doc[1].texts, call.merge_gap.v),
                        LAMBDA m : Matches(m.text))

\* line_gap = 0: blocks at y0 = -4 and y0 = 1 returned as one merged block
C25_Witness ==
    /\ Merging /\ call.line_gap = 0
    /\ \E i \in 1..Len(results) :
          /\ results[i].block.obj = 0
          /\ results[i].block.bbox.y0 = -4
          /\ results[i].block.bbox.y1 = 2

\* the merged blocks of line s, run after run
MergedOfLine(s) == _merge_blocks_by_gap(s, call.merge_gap.v)

\* C26: for merge_gap >= 0 and input bboxes with x0 <= x1, two distinct
\* merged blocks produced from the same line never overlap horizontally:
\* each later run starts strictly to the right of the bbox of every earlier
\* run of that line.
C26_RunsDoNotOverlap ==
    (Merging /\ call.merge_gap.v >= 0
             /\ \A b \in PageBlocks : b.bbox.x0 <= b.bbox.x1) =>
        \A s \in LinesOf(doc[1]) :
            LET merged == MergedOfLine(s)
            IN  \A i, j \in 1..Len(merged) :
                    i < j => /\ merged[j].bbox.x0 > merged[i].bbox.x1
                             /\ ~_blocks_overlap(merged[i], merged[j])

\* the blocks of line group k of the searched page, in storage order
StoredLine(k) ==
    SelectSeq(doc[1].texts, LAMBDA b : LineKey(b, call.line_gap) = k)

\* out is line in ascending x0 order, ties in storage order (the identities
\* of the blocks of a page ascend in storage order)
IsStableSortByX0(out, line) ==
    /\ Len(out) = Len(line)
    /\ \A k \in 1..Len(line) : \E i \in 1..Len(out) : out[i] = line[k]
    /\ \A i, j \in 1..Len(out) :
          i < j => \/ out[i].bbox.x0 < out[j].bbox.x0
                   \/ out[i].bbox.x0 = out[j].bbox.x0 /\ out[i].obj < out[j].obj

\* the places (run, position in the run) of block b among the runs
PlacesOf(b, runs) ==
    {<<n, i>> \in UNION {{<<m, h>> : h \in 1..Len(runs[m])} : m \in 1..Len(runs)} :
        runs[n][i].obj = b.obj}

\* C27: merging partitions each line: the runs produced for a line,
\* concatenated in order, are exactly the blocks of the line sorted by
\* ascending x0 (ties kept in storage order), so every block of a searched
\* page belongs to exactly one run and no block is lost or duplicated.
C27_RunsPartitionTheLine ==
    Merging =>
        /\ \A k \in {LineKey(b, call.line_gap) : b \in PageBlocks} :
              LET runs == GapRuns(StoredLine(k), call.merge_gap.v)
              IN  /\ IsStableSortByX0(Flatten(runs), StoredLine(k))
                  /\ \A n \in 1..Len(runs) : runs[n] # <<>>
        /\ \A b \in PageBlocks :
              Cardinality(PlacesOf(b, RunsOfPage(doc[1]))) = 1

\* a page of two lines, one of them stored right to left and split in two runs
C27_Witness ==
    /\ Merging
    /\ Len(LineKeys(doc[1].texts, call.line_gap)) = 2
    /\ \E k \in {LineKey(b, call.line_gap) : b \in PageBlocks} :
          /\ Len(StoredLine(k)) = 2
          /\ StoredLine(k)[1].bbox.x0 > StoredLine(k)[2].bbox.x0
          /\ Len(GapRuns(StoredLine(k), call.merge_gap.v)) = 2
    /\ Len(results) >= 2

\* the results of the same search of the page stored at position p alone,
\* pages absent
ResultsOfPosition(p) ==
    DocumentSearch(<<doc[p]>>, [call EXCEPT !.pages = PagesNone])

\* C28: Document.search treats the pages argument as a set of page numbers
\* compared with the page field of each Page, not with its position in
\* Document.pages: a number listed several times makes the results of the
\* page appear once, an empty list selects no page and gives an empty
\* result, and only an absent pages argument selects all pages.
C28_PagesIsASetOfPageNumbers ==
    Returned =>
        /\ results =
              Flatten([p \in 1..Len(doc) |->
                          IF call.pages.kind = "none" \/ doc[p].page \in Listed
                          THEN ResultsOfPosition(p)
                          ELSE <<>>])
        /\ call.pages = PagesList(<<>>) => results = <<>>
        /\ call.pages.kind = "list" =>
              results = DocumentSearch(doc, [call EXCEPT !.pages.l = @ \o @])

\* page number 0 listed twice, carried by the page stored second: its
\* results appear once and the page stored first, of number 1, gives none
C28_Witness ==
    /\ Returned
    /\ call.pages = PagesList(<<0, 0>>)
    /\ Len(doc) = 2 /\ doc[1].page = 1 /\ doc[2].page = 0
    /\ ResultsOfPosition(1) # <<>>
    /\ results # <<>>
    /\ results = ResultsOfPosition(2)

\* C29: use after close is a clean failure: leaving the with-block always
\* calls close(); after close() get_page_count() is 0 and every
\* extract_page(n) with n >= 0 returns success false instead of raising;
\* a second close() has no effect and raises nothing.
C29_UseAfterClose ==
    /\ ext.scope = "left" => ext.closed >= 1
    /\ ext.closed >= 1 =>
          /\ ext.images = <<>>
          /\ get_page_count(ext.images) = 0
          /\ (ext.pc = "page" /\ ext.page >= 0) => FailedResult(ext.result, ext.page)
          /\ ext.pc = "returned" => ext.document.pages = <<>>

\* an extractor of two images, closed by the end of the with-block and
\* closed once more, asked for page 0
C29_Witness ==
    /\ ext.loaded = 2
    /\ ext.scope = "left" /\ ext.closed = 2
    /\ ext.pc = "page" /\ ext.page = 0
    /\ ~ext.result.success /\ ext.result.error = Some("IndexError")

\* the DataFrame holds the text of cell at the position of the cell
Represented(cell) ==
    /\ cell.row + 1 \in 1..Len(tbl.frame.values)
    /\ cell.col + 1 \in 1..Len(tbl.frame.values[cell.row + 1])
    /\ tbl.frame.values[cell.row + 1][cell.col + 1] = cell.text

====
